---- MODULE Spec2Model ----
(***************************************************************************)
(* autopkg: batch auto-updater.  Model of run_command / process_application *)
(* (src/src/main.rs), DebInstaller (src/src/installer/deb.rs), the sudo      *)
(* helpers (src/src/installer/mod.rs), GitHubFetcher                        *)
(* (src/src/fetcher/github.rs) and the config shapes (src/src/config.rs).   *)
(*                                                                         *)
(* Strings the code only compares or copies (names, type tags) are TLA+    *)
(* strings.  Strings the code looks into (versions, tags, repo, glob       *)
(* patterns, asset names) are sequences of one-character strings.          *)
(* Option<T>: None is <<>>, Some(x) is <<x>>.                              *)
(***************************************************************************)
EXTENDS Integers, Sequences, FiniteSets, TLC

VARIABLES
    \* the batch run (run_command)
    file,            \* the configuration file on disk
    run,             \* number of the current invocation of autopkg run
    dry_run,         \* the --dry-run flag of the current invocation
    pc,              \* position in run_command / process_application
    config,          \* config.applications, in memory
    loaded,          \* config.applications as load_config returned it
    idx,             \* position of the for loop in config.applications
    config_updated,  \* the needs-save flag
    exit,            \* what run_command returned: "none", "ok", "err"
    cur,             \* record of the current / latest process_application call
    processed,       \* per application: calls of process_application this run
    installed,       \* applications whose install returned Ok this run
    inferring,       \* per application: None, or the package identity its
                     \* installer had when this run inferred its package_name
    writes,          \* calls of fs::write on the config file this run
    inferred,        \* per application: None, or the first run whose inferred
                     \* package_name was saved, with that package identity
    \* one call of is_newer
    vlocal, vremote, vout, vpc,
    \* one call of DebInstaller::install
    ihost, iinstaller, ipath, istatus, iout, ipc,
    \* one call of normalize_version
    ntag, nout, npc,
    \* one invocation of autopkg show-config
    sfile, shown, spc,
    \* is_newer on three version strings
    oa, ob, oc, oout, opc,
    \* downloads into the temp directory of one host, over several runs
    tmpfiles,        \* the files of the temp directory: path and the download
                     \* that last wrote it
    downloads,       \* the downloads that created their file, in order
    drun, dcount, dpc

----------------------------------------------------------------------------
(* Option and Result *)

None == <<>>
Ok(v) == [ok |-> TRUE, val |-> v]
Err(e) == [ok |-> FALSE, err |-> e]
Some(x) == <<x>>
is_none(o) == o = <<>>
is_some(o) == o # <<>>
unwrap_or(o, d) == IF o = <<>> THEN d ELSE o[1]

----------------------------------------------------------------------------
(* Characters *)

Digits == {"0", "1", "2", "3", "4", "5", "6", "7", "8", "9"}

Letters ==
    {"a", "b", "c", "d", "e", "f", "g", "h", "i", "j", "k", "l", "m",
     "n", "o", "p", "q", "r", "s", "t", "u", "v", "w", "x", "y", "z",
     "A", "B", "C", "D", "E", "F", "G", "H", "I", "J", "K", "L", "M",
     "N", "O", "P", "Q", "R", "S", "T", "U", "V", "W", "X", "Y", "Z"}

DigitVal(c) ==
    CASE c = "0" -> 0 [] c = "1" -> 1 [] c = "2" -> 2 [] c = "3" -> 3
      [] c = "4" -> 4 [] c = "5" -> 5 [] c = "6" -> 6 [] c = "7" -> 7
      [] c = "8" -> 8 [] c = "9" -> 9

\* str::split(sep): the segments between separators; "" gives one empty segment.
RECURSIVE SplitFrom(_, _, _, _)
SplitFrom(s, sep, i, seg) ==
    IF i > Len(s) THEN <<seg>>
    ELSE IF s[i] = sep THEN <<seg>> \o SplitFrom(s, sep, i + 1, <<>>)
    ELSE SplitFrom(s, sep, i + 1, Append(seg, s[i]))

split(s, sep) == SplitFrom(s, sep, 1, <<>>)

----------------------------------------------------------------------------
(* u64::from_str *)

\* The decimal digits of u64::MAX = 18446744073709551615.
U64MaxDigits ==
    <<"1", "8", "4", "4", "6", "7", "4", "4", "0", "7",
      "3", "7", "0", "9", "5", "5", "1", "6", "1", "5">>

RECURSIVE StripZeros(_)
StripZeros(d) ==
    IF d # <<>> /\ d[1] = "0" THEN StripZeros(Tail(d)) ELSE d

RECURSIVE DigitsGreater(_, _)
DigitsGreater(a, b) ==
    IF a = <<>> THEN FALSE
    ELSE IF DigitVal(a[1]) # DigitVal(b[1]) THEN DigitVal(a[1]) > DigitVal(b[1])
    ELSE DigitsGreater(Tail(a), Tail(b))

\* checked_mul / checked_add overflow of the accumulating u64.
U64Overflows(d) ==
    LET z == StripZeros(d) IN
    \/ Len(z) > Len(U64MaxDigits)
    \/ Len(z) = Len(U64MaxDigits) /\ DigitsGreater(z, U64MaxDigits)

RECURSIVE DecimalValue(_, _)
DecimalValue(d, acc) ==
    IF d = <<>> THEN acc ELSE DecimalValue(Tail(d), acc * 10 + DigitVal(d[1]))

\* s.parse::<u64>().ok(): an optional leading "+", then one or more decimal
\* digits, the value at most u64::MAX; anything else is None.
ParseU64(s) ==
    LET d == IF s # <<>> /\ s[1] = "+" THEN Tail(s) ELSE s IN
    IF d = <<>> THEN None
    ELSE IF \E i \in 1..Len(d) : d[i] \notin Digits THEN None
    ELSE IF U64Overflows(d) THEN None
    ELSE Some(DecimalValue(d, 0))

----------------------------------------------------------------------------
(* GitHubFetcher::is_newer *)

RECURSIVE FilterMapParse(_)
FilterMapParse(segs) ==
    IF segs = <<>> THEN <<>>
    ELSE LET p == ParseU64(Head(segs)) IN
         (IF is_some(p) THEN <<p[1]>> ELSE <<>>) \o FilterMapParse(Tail(segs))

\* fn parse(v) -> Vec<u64>
parse(v) == FilterMapParse(split(v, "."))

Max(a, b) == IF a >= b THEN a ELSE b

\* Vec::resize(new_len, value) for new_len >= len
resize(vec, new_len, value) ==
    [i \in 1..new_len |-> IF i <= Len(vec) THEN vec[i] ELSE value]

\* The loop as it would be without the branch that returns false.
RECURSIVE ZipLoopAnyGreater(_, _, _)
ZipLoopAnyGreater(l, r, i) ==
    IF i > Len(l) \/ i > Len(r) THEN FALSE
    ELSE IF r[i] > l[i] THEN TRUE
    ELSE ZipLoopAnyGreater(l, r, i + 1)

\* The loop as it would be if it ended with true.
RECURSIVE ZipLoopEqualIsNewer(_, _, _)
ZipLoopEqualIsNewer(l, r, i) ==
    IF i > Len(l) \/ i > Len(r) THEN TRUE
    ELSE IF r[i] > l[i] THEN TRUE
    ELSE IF r[i] < l[i] THEN FALSE
    ELSE ZipLoopEqualIsNewer(l, r, i + 1)

RECURSIVE ZipLoop(_, _, _)
ZipLoop(l, r, i) ==
    IF i > Len(l) \/ i > Len(r) THEN FALSE
    ELSE IF r[i] > l[i] THEN TRUE
    ELSE IF r[i] < l[i] THEN FALSE
    ELSE ZipLoop(l, r, i + 1)

is_newer(local, remote) ==
    LET lp == parse(local)
        rp == parse(remote)
        max_len == Max(Len(lp), Len(rp))
    IN ZipLoop(resize(lp, max_len, 0), resize(rp, max_len, 0), 1)

----------------------------------------------------------------------------
(* GitHubFetcher::normalize_version *)

\* The character class [0-9A-Za-z\.\-\+]
InVersionClass(c) == c \in Digits \/ c \in Letters \/ c \in {".", "-", "+"}

\* Regex v?(?P<version>[0-9][0-9A-Za-z\.\-\+]*) searched unanchored: the
\* leftmost match starts at the first digit of the tag (or at a "v" right
\* before it), so the version group always starts at the first digit and
\* greedily takes the following class characters.
FirstDigit(tag) ==
    IF \E i \in 1..Len(tag) : tag[i] \in Digits
    THEN CHOOSE i \in 1..Len(tag) :
            /\ tag[i] \in Digits
            /\ \A j \in 1..(i - 1) : tag[j] \notin Digits
    ELSE 0

RECURSIVE ClassRunEnd(_, _)
ClassRunEnd(tag, i) ==
    IF i < Len(tag) /\ InVersionClass(tag[i + 1]) THEN ClassRunEnd(tag, i + 1) ELSE i

\* normalize_version as it would be if it returned the whole match, the
\* optional v included, instead of the version group.
normalize_version_whole(tag) ==
    LET d == FirstDigit(tag)
        from == IF d > 1 /\ tag[d - 1] = "v" THEN d - 1 ELSE d
    IN IF d = 0 THEN tag ELSE SubSeq(tag, from, ClassRunEnd(tag, d))

normalize_version(tag) ==
    LET d == FirstDigit(tag) IN
    IF d = 0 THEN tag ELSE SubSeq(tag, d, ClassRunEnd(tag, d))

----------------------------------------------------------------------------
(* config.rs: the file's shapes and the in-memory configuration *)

\* deserialize_installer_config as it would be without the String variant of
\* the intermediate enum.
deserialize_installer_config_map_only(wire) == [type |-> wire.type]

\* deserialize_installer_config: the bare string and the {type: ...} map both
\* become InstallerConfig { type }.
deserialize_installer_config(wire) ==
    IF wire.shape = "string" THEN [type |-> wire.value] ELSE [type |-> wire.type]

\* Serialize for InstallerConfig (derived): always the map form.
serialize_installer_config(ic) ==
    [shape |-> "map", value |-> "", type |-> ic.type]

\* Deserialize for ApplicationConfig (derived, installer through the helper).
deserialize_application(entry) ==
    [name         |-> entry.name,
     fetcher      |-> entry.fetcher,
     installer    |-> deserialize_installer_config(entry.installer),
     package_name |-> entry.package_name,
     pinned       |-> entry.pinned]

\* Serialize as it would be if package_name were skipped.
serialize_application_skip(app) ==
    [name         |-> app.name,
     fetcher      |-> app.fetcher,
     installer    |-> serialize_installer_config(app.installer),
     package_name |-> None,
     pinned       |-> app.pinned]

\* Serialize for ApplicationConfig (derived).
serialize_application(app) ==
    [name         |-> app.name,
     fetcher      |-> app.fetcher,
     installer    |-> serialize_installer_config(app.installer),
     package_name |-> app.package_name,
     pinned       |-> app.pinned]

\* serde_yaml::from_str::<Config>
from_str(doc) == [i \in 1..Len(doc) |-> deserialize_application(doc[i])]

\* serde_yaml::to_string(&Config)
to_string(applications) ==
    [i \in 1..Len(applications) |-> serialize_application(applications[i])]

\* load_config: read_to_string, then from_str; either may fail.
load_config(f) ==
    IF ~f.readable THEN Err("Failed to read config file")
    ELSE IF ~f.valid THEN Err("Failed to parse config YAML")
    ELSE Ok(from_str(f.doc))

----------------------------------------------------------------------------
(* installer/mod.rs, installer/deb.rs *)

DebInstaller_new(app) ==
    [package_name |-> unwrap_or(app.package_name, app.name),
     pinned       |-> unwrap_or(app.pinned, FALSE)]

create_installer(ic, app) ==
    IF ic.type = "deb" THEN Ok(DebInstaller_new(app))
    ELSE Err("Unknown installer type")

\* str::trim on the rest of the Version: line
RECURSIVE trim_start(_)
trim_start(s) == IF s # <<>> /\ s[1] = " " THEN trim_start(Tail(s)) ELSE s

RECURSIVE trim_end(_)
trim_end(s) ==
    IF s # <<>> /\ s[Len(s)] = " " THEN trim_end(SubSeq(s, 1, Len(s) - 1)) ELSE s

trim(s) == trim_end(trim_start(s))

\* The loop over stdout.lines(): the first line with the prefix "Version:".
RECURSIVE FirstVersionLine(_)
FirstVersionLine(lines) ==
    IF lines = <<>> THEN None
    ELSE IF Head(lines).prefix = "Version:" THEN Some(trim(Head(lines).rest))
    ELSE FirstVersionLine(Tail(lines))

\* get_installed_version.  dpkg is what the host answers: whether dpkg is in
\* PATH, whether it can be spawned, its exit status and its stdout.
\* ret is the Result<Option<String>>, queried the package dpkg -s was run on.
get_installed_version(self, dpkg) ==
    IF ~dpkg.in_path THEN [ret |-> Ok(None), queried |-> None]
    ELSE IF ~dpkg.spawns THEN
        [ret |-> Err("Failed to run dpkg -s"), queried |-> Some(self.package_name)]
    ELSE IF ~dpkg.success THEN
        [ret |-> Ok(None), queried |-> Some(self.package_name)]
    ELSE [ret |-> Ok(FirstVersionLine(dpkg.stdout)),
          queried |-> Some(self.package_name)]

ZeroVersion == <<"0", ".", "0", ".", "0">>

\* should_check_for_update as it would be if the query came before the test
\* of pinned.
should_check_query_first(self, dpkg) ==
    LET g == get_installed_version(self, dpkg) IN
    IF ~g.ret.ok THEN [check |-> "Err", current |-> None, queried |-> g.queried]
    ELSE IF self.pinned THEN [check |-> "No", current |-> None, queried |-> g.queried]
    ELSE IF is_some(g.ret.val)
         THEN [check |-> "Yes", current |-> g.ret.val, queried |-> g.queried]
         ELSE [check |-> "Yes", current |-> Some(ZeroVersion), queried |-> g.queried]

\* should_check_for_update as it would be if "not installed" were an error.
should_check_not_installed_err(self, dpkg) ==
    IF self.pinned THEN [check |-> "No", current |-> None, queried |-> None]
    ELSE LET g == get_installed_version(self, dpkg) IN
         IF ~g.ret.ok \/ is_none(g.ret.val)
         THEN [check |-> "Err", current |-> None, queried |-> g.queried]
         ELSE [check |-> "Yes", current |-> g.ret.val, queried |-> g.queried]

\* should_check_for_update.  check is "No", "Yes" or "Err"; current the
\* version carried by Yes.
should_check_for_update(self, dpkg) ==
    IF self.pinned THEN [check |-> "No", current |-> None, queried |-> None]
    ELSE LET g == get_installed_version(self, dpkg) IN
         IF ~g.ret.ok THEN [check |-> "Err", current |-> None, queried |-> g.queried]
         ELSE IF is_some(g.ret.val)
              THEN [check |-> "Yes", current |-> g.ret.val, queried |-> g.queried]
              ELSE [check |-> "Yes", current |-> Some(ZeroVersion), queried |-> g.queried]

\* check_sudo_availability: Ok(true) as root, Ok(false) with sudo and a
\* terminal, Err otherwise.
check_sudo_availability(host) ==
    IF host.root THEN Ok(TRUE)
    ELSE IF ~host.sudo THEN Err("sudo is not available in PATH")
    ELSE IF ~host.tty THEN Err("no terminal available for sudo password prompt")
    ELSE Ok(FALSE)

\* run_as_root: spawned is the command line run, if any.
run_as_root(cmd_args, host, status) ==
    LET c == check_sudo_availability(host) IN
    IF ~c.ok THEN [ret |-> "Err", spawned |-> None]
    ELSE LET line == IF c.val THEN cmd_args ELSE <<"sudo">> \o cmd_args IN
         [ret |-> IF status = "spawn_err" THEN "Err" ELSE "Ok",
          spawned |-> Some(line)]

\* run_install_command as it would be without the test of the exit status.
run_install_command_ignore_status(self, file_path, host, status) ==
    LET cmd == IF host.sudo THEN <<"sudo", "dpkg", "-i">> ELSE <<"dpkg", "-i">> IN
    [ret     |-> IF status = "spawn_err" THEN "Err" ELSE "Ok",
     spawned |-> Some(Append(cmd, file_path))]

\* run_install_command: sudo dpkg -i <file> when sudo is in PATH, else
\* dpkg -i <file>; Err when the command cannot be spawned or exits non-zero.
run_install_command(self, file_path, host, status) ==
    LET cmd == IF host.sudo THEN <<"sudo", "dpkg", "-i">> ELSE <<"dpkg", "-i">> IN
    [ret     |-> IF status = "success" THEN "Ok" ELSE "Err",
     spawned |-> Some(Append(cmd, file_path))]

install(self, file_path, host, status) ==
    run_install_command(self, file_path, host, status)

----------------------------------------------------------------------------
(* fetcher/mod.rs, fetcher/github.rs *)

\* str::split_once('/')
split_once(s, sep) ==
    IF \E i \in 1..Len(s) : s[i] = sep
    THEN LET k == CHOOSE i \in 1..Len(s) :
                    s[i] = sep /\ \A j \in 1..(i - 1) : s[j] # sep
         IN Some(<<SubSeq(s, 1, k - 1), SubSeq(s, k + 1, Len(s))>>)
    ELSE None

\* glob::Pattern::new, for patterns of literals, ?, * and [: a [ that is
\* never closed is a PatternError.
Pattern_new(p) ==
    IF \E i \in 1..Len(p) : p[i] = "[" /\ \A j \in (i + 1)..Len(p) : p[j] # "]"
    THEN Err("Invalid glob pattern")
    ELSE Ok(p)

\* The pattern from its token i on matches the name from its character j on.
RECURSIVE MatchesFrom(_, _, _, _)
MatchesFrom(p, s, i, j) ==
    IF i > Len(p) THEN j > Len(s)
    ELSE IF p[i] = "*" THEN
        \/ MatchesFrom(p, s, i + 1, j)
        \/ j <= Len(s) /\ MatchesFrom(p, s, i, j + 1)
    ELSE IF p[i] = "?" THEN j <= Len(s) /\ MatchesFrom(p, s, i + 1, j + 1)
    ELSE j <= Len(s) /\ s[j] = p[i] /\ MatchesFrom(p, s, i + 1, j + 1)

\* glob::Pattern::matches, for patterns of literals, ? and *.
matches(p, s) == MatchesFrom(p, s, 1, 1)

GitHubFetcher_new(fc, app) ==
    IF is_none(fc.repo) THEN Err("GitHub fetcher requires repo field")
    ELSE LET parts == split_once(fc.repo[1], "/") IN
         IF is_none(parts) THEN Err("GitHub repo must be in form owner/repo")
         ELSE LET pat == Pattern_new(unwrap_or(fc.file_pattern, <<"*">>)) IN
              IF ~pat.ok THEN Err("Invalid glob pattern")
              ELSE Ok([owner        |-> parts[1][1],
                       repo         |-> parts[1][2],
                       file_pattern |-> pat.val,
                       app_name     |-> app.name])

create_fetcher(fc, app) ==
    IF fc.type = "github" THEN GitHubFetcher_new(fc, app)
    ELSE Err("Unknown fetcher type")

\* latest_release: the GET may fail to send, answer a non-success status or
\* a body that is not a release.
latest_release(self, api) ==
    IF api.kind = "send_err" THEN Err("send")
    ELSE IF api.kind = "status_err" THEN Err("GitHub API returned non-success status")
    ELSE IF api.kind = "json_err" THEN Err("json")
    ELSE Ok([tag_name |-> api.tag_name, assets |-> api.assets])

\* The path as it would be if the file were named after the application.
download_path_per_app(self, name) ==
    [dir |-> "temp_dir", filename |-> <<"autopkg-", self.app_name, "-">> \o name]

\* temp_dir().join(format!("autopkg-{}-{}", self.repo, name))
download_path(self, name) ==
    [dir |-> "temp_dir", filename |-> <<"autopkg-">> \o self.repo \o <<"-">> \o name]

\* download_asset: the GET may fail, answer a non-success status, or the file
\* may fail to be created or written.
download_asset(self, url, name, dl) ==
    IF dl = "ok" THEN Ok(download_path(self, name)) ELSE Err(dl)

\* find as it would be if it kept the last matching asset.
RECURSIVE find_asset_last(_, _)
find_asset_last(assets, pattern) ==
    IF assets = <<>> THEN None
    ELSE IF matches(pattern, assets[Len(assets)].name)
         THEN Some(assets[Len(assets)])
         ELSE find_asset_last(SubSeq(assets, 1, Len(assets) - 1), pattern)

\* release.assets.into_iter().find(|a| self.file_pattern.matches(&a.name))
RECURSIVE find_asset(_, _)
find_asset(assets, pattern) ==
    IF assets = <<>> THEN None
    ELSE IF matches(pattern, Head(assets).name) THEN Some(Head(assets))
    ELSE find_asset(Tail(assets), pattern)

\* The comparison that decides whether fetch_if_newer goes on to download.
newer_available(current_version, tag_name) ==
    is_newer(normalize_version(current_version), normalize_version(tag_name))

\* fetch_if_newer from line 155 on as it would be if a release without a
\* matching asset were an error.
fetch_decided_no_asset_err(self, release, newer, dl) ==
    LET seen == [fetch |-> "None", path |-> None, tag |-> Some(release.tag_name),
                 newer |-> Some(newer),
                 assets |-> IF newer THEN Some(release.assets) ELSE None,
                 asset |-> None, requests |-> <<"release">>, error |-> None]
    IN
    IF ~newer THEN seen
    ELSE LET asset == find_asset(release.assets, self.file_pattern) IN
         IF is_none(asset)
         THEN [seen EXCEPT !.fetch = "Err", !.error = Some("no matching asset")]
         ELSE LET d == download_asset(self, asset[1].browser_download_url,
                                      asset[1].name, dl)
                  asked == [seen EXCEPT !.asset = Some(asset[1].name),
                                        !.requests = <<"release", "asset">>]
              IN IF d.ok THEN [asked EXCEPT !.fetch = "Some", !.path = Some(d.val)]
                 ELSE [asked EXCEPT !.fetch = "Err", !.error = Some(d.err)]

\* fetch_if_newer from line 155 on, newer being what is_newer returned.
\* fetch is "None", "Some" or "Err"; requests are the GETs issued, in order;
\* assets is the asset list find went through, asset the name of the one it
\* selected.
fetch_decided(self, release, newer, dl) ==
    LET seen == [fetch |-> "None", path |-> None, tag |-> Some(release.tag_name),
                 newer |-> Some(newer),
                 assets |-> IF newer THEN Some(release.assets) ELSE None,
                 asset |-> None, requests |-> <<"release">>, error |-> None]
    IN
    IF ~newer THEN seen
    ELSE LET asset == find_asset(release.assets, self.file_pattern) IN
         IF is_none(asset) THEN seen
         ELSE LET d == download_asset(self, asset[1].browser_download_url,
                                      asset[1].name, dl)
                  asked == [seen EXCEPT !.asset = Some(asset[1].name),
                                        !.requests = <<"release", "asset">>]
              IN IF d.ok THEN [asked EXCEPT !.fetch = "Some", !.path = Some(d.val)]
                 ELSE [asked EXCEPT !.fetch = "Err", !.error = Some(d.err)]

\* fetch_if_newer: line 144, then the rest.
fetch_if_newer(self, current_version, api, dl) ==
    LET rel == latest_release(self, api) IN
    IF ~rel.ok
    THEN [fetch |-> "Err", path |-> None, tag |-> None, newer |-> None,
          assets |-> None, asset |-> None, requests |-> <<"release">>,
          error |-> Some(rel.err)]
    ELSE fetch_decided(self, rel.val,
                       newer_available(current_version, rel.val.tag_name), dl)

----------------------------------------------------------------------------
(* main.rs: run_command and process_application *)

\* Line 194 as it would be with the test of package_name inverted.
infers_package_name_inverted(app) ==
    app.installer.type = "deb" /\ is_some(app.package_name)

\* Line 194 as it would be without the test that package_name is unset.
infers_package_name_overwrite(app) == app.installer.type = "deb"

\* Line 194: the condition under which a completed install infers package_name.
infers_package_name(app) ==
    app.installer.type = "deb" /\ is_none(app.package_name)

\* Lines 178-190 as they would be if --dry-run were ignored.
applies_update_always(dry) == TRUE

\* Lines 178-190: the update is installed unless --dry-run was given.
applies_update(dry) == ~dry

\* Lines 173-177 as they would be if a None from the fetcher went on to the
\* install like a Some.
match_fetch_result_none_installs(fetch) ==
    IF fetch = "Err" THEN "return_err" ELSE "downloaded"

\* Lines 173-177: the ? returns an Err, None ends the application as
\* up-to-date, Some(downloaded_path) goes on to the install.
match_fetch_result(fetch) ==
    IF fetch = "Err" THEN "return_err"
    ELSE IF fetch = "None" THEN "up_to_date"
    ELSE "downloaded"

\* The for loop as it would be if an Err left it.
after_process_application_abort(result, i) ==
    IF result = "Err"
    THEN [pc |-> "exit", idx |-> i, exit |-> "application failed"]
    ELSE [pc |-> "loop", idx |-> i + 1, exit |-> "none"]

\* Lines 124-129: whatever process_application returned, the for loop goes on
\* with the next application; an Err is only logged.
after_process_application(result, i) ==
    [pc |-> "loop", idx |-> i + 1, exit |-> "none"]

\* Line 133 as it would be if the file were always saved.
needs_save_always(flag) == TRUE

\* Line 133: save only if some application set the flag.
needs_save(flag) == flag

\* save_config: to_string, then fs::write, which may fail leaving the file
\* as it was or truncated.
save_config(applications, f, w) ==
    IF w = "ok"
    THEN [ret |-> "Ok", file |-> [readable |-> TRUE, valid |-> TRUE,
                                  doc |-> to_string(applications)]]
    ELSE [ret |-> "Failed to write config file",
          file |-> IF w = "err_truncated"
                   THEN [readable |-> TRUE, valid |-> FALSE, doc |-> <<>>]
                   ELSE f]

\* The record of one process_application call.
NoCall ==
    [app |-> 0, installer |-> None, fetcher |-> None,
     check |-> "not_called", dpkg |-> None, current |-> None, queried |-> None,
     fetch |-> "not_called", fetch_arg |-> None, requests |-> <<>>,
     tag |-> None, newer |-> None, assets |-> None, asset |-> None,
     path |-> None, error |-> None,
     install |-> "not_called", install_arg |-> None, status |-> None,
     spawned |-> None,
     n_check |-> 0, n_fetch |-> 0, n_install |-> 0,
     set_flag |-> FALSE, result |-> "none"]

----------------------------------------------------------------------------
(* Inputs of the batch run *)

MaxApps == 2
MaxRuns == 2

Names == <<"alpha", "beta", "gamma", "delta", "epsilon">>

GoodFetcher ==
    [type |-> "github", repo |-> Some(<<"o", "/", "r">>),
     file_pattern |-> Some(<<"*", ".", "d">>)]

NoRepoFetcher == [type |-> "github", repo |-> None, file_pattern |-> None]

ShortInstaller(t) == [shape |-> "string", value |-> t, type |-> ""]
FullInstaller(t) == [shape |-> "map", value |-> "", type |-> t]

\* The entries an application named n may have in the file.
Entries(n) ==
    { [name |-> n, fetcher |-> GoodFetcher, installer |-> ShortInstaller("deb"),
       package_name |-> None, pinned |-> None],
      [name |-> n, fetcher |-> GoodFetcher, installer |-> FullInstaller("deb"),
       package_name |-> Some("other-pkg"), pinned |-> Some(FALSE)],
      [name |-> n, fetcher |-> GoodFetcher, installer |-> FullInstaller("deb"),
       package_name |-> None, pinned |-> Some(TRUE)],
      [name |-> n, fetcher |-> NoRepoFetcher, installer |-> ShortInstaller("deb"),
       package_name |-> None, pinned |-> None],
      [name |-> n, fetcher |-> GoodFetcher, installer |-> ShortInstaller("rpm"),
       package_name |-> None, pinned |-> None] }

RECURSIVE DocsOfLen(_)
DocsOfLen(n) ==
    IF n = 0 THEN {<<>>}
    ELSE {Append(d, e) : d \in DocsOfLen(n - 1), e \in Entries(Names[n])}

Docs == UNION {DocsOfLen(n) : n \in 0..MaxApps}

Files ==
    {[readable |-> FALSE, valid |-> FALSE, doc |-> <<>>],
     [readable |-> TRUE, valid |-> FALSE, doc |-> <<>>]}
    \cup {[readable |-> TRUE, valid |-> TRUE, doc |-> d] : d \in Docs}

PackageLine == [prefix |-> "Package:", rest |-> <<" ", "x">>]
VersionLine(v) == [prefix |-> "Version:", rest |-> <<" ">> \o v]

\* What the host answers to the package query.
DpkgAnswers ==
    { [in_path |-> FALSE, spawns |-> FALSE, success |-> FALSE, stdout |-> <<>>],
      [in_path |-> TRUE, spawns |-> FALSE, success |-> FALSE, stdout |-> <<>>],
      [in_path |-> TRUE, spawns |-> TRUE, success |-> FALSE, stdout |-> <<>>],
      [in_path |-> TRUE, spawns |-> TRUE, success |-> TRUE,
       stdout |-> <<PackageLine>>],
      [in_path |-> TRUE, spawns |-> TRUE, success |-> TRUE,
       stdout |-> <<PackageLine, VersionLine(<<"1", ".", "2">>)>>] }

ReleaseTags ==
    { <<"v", "1", ".", "3">>,
      <<"v", "1", ".", "2">>,
      <<"n", "i", "g", "h", "t", "l", "y">> }

TarAsset ==
    [name |-> <<"a", ".", "t">>,
     browser_download_url |-> "url-tar"]

DebAsset ==
    [name |-> <<"a", ".", "d">>,
     browser_download_url |-> "url-deb"]

OtherDebAsset ==
    [name |-> <<"b", ".", "d">>,
     browser_download_url |-> "url-other-deb"]

AssetLists == { <<TarAsset, DebAsset, OtherDebAsset>>, <<TarAsset>> }

\* What the releases API answers.
ApiAnswers ==
    {[kind |-> k, tag_name |-> <<>>, assets |-> <<>>] :
        k \in {"send_err", "status_err", "json_err"}}
    \cup {[kind |-> "ok", tag_name |-> t, assets |-> a] :
            t \in ReleaseTags, a \in AssetLists}

DownloadAnswers == {"ok", "send_err", "status_err", "io_err"}

Hosts == [root : BOOLEAN, sudo : BOOLEAN, tty : BOOLEAN]

InstallStatuses == {"success", "nonzero", "spawn_err"}

WriteAnswers == {"ok", "err_untouched", "err_truncated"}

NoneFor(applications) == [i \in 1..Len(applications) |-> None]

bvars == <<file, run, dry_run, pc, config, loaded, idx, config_updated, exit,
           cur, processed, installed, writes, inferring, inferred>>

BatchIdle ==
    /\ file = [readable |-> FALSE, valid |-> FALSE, doc |-> <<>>]
    /\ run = 0
    /\ dry_run = FALSE
    /\ pc = "idle"
    /\ config = <<>>
    /\ loaded = <<>>
    /\ idx = 0
    /\ config_updated = FALSE
    /\ exit = "none"
    /\ cur = NoCall
    /\ processed = <<>>
    /\ installed = {}
    /\ writes = 0
    /\ inferring = <<>>
    /\ inferred = <<>>

BatchInit ==
    /\ file \in Files
    /\ run = 1
    /\ dry_run \in BOOLEAN
    /\ pc = "load"
    /\ config = <<>>
    /\ loaded = <<>>
    /\ idx = 0
    /\ config_updated = FALSE
    /\ exit = "none"
    /\ cur = NoCall
    /\ processed = <<>>
    /\ installed = {}
    /\ writes = 0
    /\ inferring = <<>>
    /\ inferred = NoneFor(file.doc)

\* Fetcher configurations of every shape GitHubFetcher::new and
\* create_fetcher tell apart.
RepoInputs ==
    { <<"o", "/", "r">>, <<"o", "r">>, <<"o", "/">>, <<"/", "r">>,
      <<"o", "/", "r", "/", "x">> }

ConfigFetchers ==
    {[type |-> "github", repo |-> Some(r), file_pattern |-> GoodFetcher.file_pattern] :
        r \in RepoInputs}
    \cup { NoRepoFetcher,
           [GoodFetcher EXCEPT !.type = "gitlab"],
           [GoodFetcher EXCEPT !.file_pattern = Some(<<"[">>)],
           [GoodFetcher EXCEPT !.file_pattern = None] }

ConfigEntries(n) ==
    {[name |-> n, fetcher |-> f, installer |-> ShortInstaller("deb"),
      package_name |-> None, pinned |-> p] :
        f \in ConfigFetchers, p \in {None, Some(TRUE)}}
    \cup {[name |-> n, fetcher |-> GoodFetcher, installer |-> ShortInstaller(t),
            package_name |-> None, pinned |-> p] :
            t \in {"rpm", ""}, p \in {None, Some(TRUE)}}

\* One application of any of these shapes, alone or followed by a well-formed
\* one.
ConfigDocs ==
    {<<e>> : e \in ConfigEntries(Names[1])}
    \cup {<<e, [name |-> Names[2], fetcher |-> GoodFetcher,
                installer |-> ShortInstaller("deb"),
                package_name |-> None, pinned |-> None]>> :
            e \in ConfigEntries(Names[1])}

ConfigFiles == {[readable |-> TRUE, valid |-> TRUE, doc |-> d] : d \in ConfigDocs}

ConfigsInit ==
    /\ file \in ConfigFiles
    /\ run = 1
    /\ dry_run \in BOOLEAN
    /\ pc = "load"
    /\ config = <<>>
    /\ loaded = <<>>
    /\ idx = 0
    /\ config_updated = FALSE
    /\ exit = "none"
    /\ cur = NoCall
    /\ processed = <<>>
    /\ installed = {}
    /\ writes = 0
    /\ inferring = <<>>
    /\ inferred = NoneFor(file.doc)

----------------------------------------------------------------------------
(* The batch run, step by step *)

\* run_command line 113: load_config; its error is returned at once.
LoadConfig ==
    /\ pc = "load"
    /\ LET r == load_config(file) IN
       IF r.ok
       THEN /\ config' = r.val
            /\ loaded' = r.val
            /\ processed' = [i \in 1..Len(r.val) |-> 0]
            /\ inferring' = NoneFor(r.val)
            /\ idx' = 1
            /\ pc' = "loop"
            /\ exit' = "none"
       ELSE /\ exit' = r.err
            /\ pc' = "exit"
            /\ UNCHANGED <<config, loaded, processed, inferring, idx>>
    /\ UNCHANGED <<file, run, dry_run, config_updated, cur, installed, writes,
                   inferred>>

\* process_application returns `result` to the for loop of run_command.
Return(call, result) ==
    LET a == after_process_application(result, idx) IN
    /\ cur' = [call EXCEPT !.result = result]
    /\ pc' = a.pc
    /\ idx' = a.idx
    /\ exit' = a.exit

\* Lines 121-124 and 160-161: the loop takes the next application and
\* process_application constructs its installer and its fetcher.
BeginApplication ==
    /\ pc = "loop"
    /\ idx <= Len(config)
    /\ processed' = [processed EXCEPT ![idx] = @ + 1]
    /\ LET app == config[idx]
           i == create_installer(app.installer, app)
           call == [NoCall EXCEPT !.app = idx]
       IN
       IF ~i.ok THEN Return(call, "Err")
       ELSE LET f == create_fetcher(app.fetcher, app)
                made == [call EXCEPT !.installer = Some(i.val)]
            IN
            IF ~f.ok THEN Return(made, "Err")
            ELSE /\ cur' = [made EXCEPT !.fetcher = Some(f.val), !.result = "running"]
                 /\ pc' = "check"
                 /\ UNCHANGED <<idx, exit>>
    /\ UNCHANGED <<file, run, dry_run, config, loaded, config_updated, installed,
                   writes, inferring, inferred>>

\* Line 163: installer.should_check_for_update()?
ShouldCheck ==
    /\ pc = "check"
    /\ \E dpkg \in DpkgAnswers :
        \E c \in {should_check_for_update(cur.installer[1], dpkg)} :
        LET call == [cur EXCEPT !.check = c.check, !.dpkg = Some(dpkg),
                                !.current = c.current, !.queried = c.queried,
                                !.n_check = @ + 1]
        IN
        IF c.check = "Err" THEN Return(call, "Err")
        ELSE IF c.check = "No" THEN Return(call, "Ok")
        ELSE /\ cur' = call
             /\ pc' = "fetch"
             /\ UNCHANGED <<idx, exit>>
    /\ UNCHANGED <<file, run, dry_run, config, loaded, config_updated, processed,
                   installed, writes, inferring, inferred>>

\* Line 173: fetcher.fetch_if_newer(&current_version)?
FetchIfNewer ==
    /\ pc = "fetch"
    /\ \E api \in ApiAnswers :
        \E dl \in IF api.kind = "ok" THEN DownloadAnswers ELSE {"ok"} :
        \E f \in {fetch_if_newer(cur.fetcher[1], cur.current[1], api, dl)} :
        LET call == [cur EXCEPT !.fetch = f.fetch, !.fetch_arg = cur.current,
                                !.requests = f.requests, !.tag = f.tag,
                                !.newer = f.newer, !.assets = f.assets,
                                !.asset = f.asset, !.path = f.path,
                                !.error = f.error, !.n_fetch = @ + 1]
            m == match_fetch_result(f.fetch)
        IN
        IF m = "return_err" THEN Return(call, "Err")
        ELSE IF m = "up_to_date" THEN Return(call, "Ok")
        ELSE /\ cur' = call
             /\ pc' = "install"
             /\ UNCHANGED <<idx, exit>>
    /\ UNCHANGED <<file, run, dry_run, config, loaded, config_updated, processed,
                   installed, writes, inferring, inferred>>

\* Lines 178-183: with --dry-run the update is only reported.
DryRunReport ==
    /\ pc = "install"
    /\ ~applies_update(dry_run)
    /\ Return(cur, "Ok")
    /\ UNCHANGED <<file, run, dry_run, config, loaded, config_updated, processed,
                   installed, writes, inferring, inferred>>

\* Lines 184-201: installer.install(&downloaded_path)?, then the inference of
\* package_name.
Install ==
    /\ pc = "install"
    /\ applies_update(dry_run)
    /\ \E host \in Hosts, status \in InstallStatuses :
        LET app == config[idx]
            r == install(cur.installer[1], cur.path[1], host, status)
            call == [cur EXCEPT !.install = r.ret, !.install_arg = cur.path,
                                !.status = Some(status), !.spawned = r.spawned,
                                !.n_install = @ + 1]
        IN
        IF r.ret = "Err"
        THEN /\ Return(call, "Err")
             /\ UNCHANGED <<config, config_updated, installed, inferring>>
        ELSE /\ installed' = installed \cup {idx}
             /\ IF infers_package_name(app)
                THEN /\ config' = [config EXCEPT ![idx].package_name = Some(app.name)]
                     /\ config_updated' = TRUE
                     /\ inferring' = [inferring EXCEPT
                                        ![idx] = Some(cur.installer[1].package_name)]
                     /\ Return([call EXCEPT !.set_flag = TRUE], "Ok")
                ELSE /\ Return(call, "Ok")
                     /\ UNCHANGED <<config, config_updated, inferring>>
    /\ UNCHANGED <<file, run, dry_run, loaded, processed, writes, inferred>>

\* Lines 132-137: after the loop, save_config if the flag is set; its error
\* is returned, otherwise Ok(()).
FinishRun ==
    /\ pc = "loop"
    /\ idx > Len(config)
    /\ pc' = "exit"
    /\ IF needs_save(config_updated)
       THEN \E w \in WriteAnswers :
               LET s == save_config(config, file, w) IN
               /\ file' = s.file
               /\ writes' = writes + 1
               /\ exit' = s.ret
               /\ inferred' =
                    [i \in 1..Len(config) |->
                        IF w = "ok" /\ is_none(inferred[i]) /\ is_some(inferring[i])
                        THEN Some([run |-> run, package |-> inferring[i][1]])
                        ELSE inferred[i]]
       ELSE /\ exit' = "Ok"
            /\ UNCHANGED <<file, writes, inferred>>
    /\ UNCHANGED <<run, dry_run, config, loaded, idx, config_updated, cur,
                   processed, installed, inferring>>

\* The next invocation of autopkg run, on the file the last one left.
NextRun ==
    /\ pc = "exit"
    /\ run < MaxRuns
    /\ run' = run + 1
    /\ dry_run' \in BOOLEAN
    /\ pc' = "load"
    /\ config' = <<>>
    /\ loaded' = <<>>
    /\ idx' = 0
    /\ config_updated' = FALSE
    /\ exit' = "none"
    /\ cur' = NoCall
    /\ processed' = <<>>
    /\ installed' = {}
    /\ writes' = 0
    /\ inferring' = <<>>
    /\ UNCHANGED <<file, inferred>>

----------------------------------------------------------------------------
(* Inputs of the version functions *)

MaxLen == 3

VersionAlphabet == {"0", "1", ".", "+"}

RECURSIVE StringsUpTo(_)
StringsUpTo(n) ==
    IF n = 0 THEN {<<>>}
    ELSE LET shorter == StringsUpTo(n - 1) IN
         shorter \cup {Append(s, c) : s \in {t \in shorter : Len(t) = n - 1},
                                      c \in VersionAlphabet}

VersionExamples ==
    { <<"1", ".", "2", ".", "3">>,
      <<"1", ".", "3", ".", "0">>,
      <<"1", ".", "2">>,
      <<"1", ".", "2", ".", "0">>,
      <<"1", ".", "0", ".", "0", "-", "r", "c", "1">>,
      <<"1", ".", "0", ".", "0">>,
      <<"9">>,
      <<"1", "0">>,
      <<"n", "i", "g", "h", "t", "l", "y">>,
      <<"1", ".", "9", "9", "9", "9", "9", "9", "9", "9", "9", "9", "9",
        "9", "9", "9", "9", "9", "9", "9", "9", "9", "9">> }

VersionInputs == StringsUpTo(MaxLen) \cup VersionExamples

vvars == <<vlocal, vremote, vout, vpc>>

VIdle ==
    /\ vlocal = <<>>
    /\ vremote = <<>>
    /\ vout = FALSE
    /\ vpc = "idle"

VInit ==
    /\ vlocal \in VersionInputs
    /\ vremote \in VersionInputs
    /\ vout = FALSE
    /\ vpc = "input"

\* One call is_newer(vlocal, vremote).
IsNewerCall ==
    /\ vpc = "input"
    /\ vout' = is_newer(vlocal, vremote)
    /\ vpc' = "compared"
    /\ UNCHANGED <<vlocal, vremote>>

----------------------------------------------------------------------------
(* Inputs of DebInstaller::install *)

ivars == <<ihost, iinstaller, ipath, istatus, iout, ipc>>

InstallerInputs == {DebInstaller_new(deserialize_application(e)) : e \in Entries("alpha")}

PathInputs ==
    {download_path([repo |-> <<"r">>], a.name) : a \in {TarAsset, DebAsset}}

IIdle ==
    /\ ihost = [root |-> FALSE, sudo |-> FALSE, tty |-> FALSE]
    /\ iinstaller = [package_name |-> "", pinned |-> FALSE]
    /\ ipath = [dir |-> "", filename |-> <<>>]
    /\ istatus = "success"
    /\ iout = [ret |-> "none", spawned |-> None]
    /\ ipc = "idle"

IInit ==
    /\ ihost \in Hosts
    /\ iinstaller \in InstallerInputs
    /\ ipath \in PathInputs
    /\ istatus \in InstallStatuses
    /\ iout = [ret |-> "none", spawned |-> None]
    /\ ipc = "input"

\* One call installer.install(ipath) on a host ihost where the install
\* command ends with istatus.
InstallCall ==
    /\ ipc = "input"
    /\ iout' = install(iinstaller, ipath, ihost, istatus)
    /\ ipc' = "done"
    /\ UNCHANGED <<ihost, iinstaller, ipath, istatus>>

----------------------------------------------------------------------------
(* autopkg show-config *)

svars == <<sfile, shown, spc>>

\* The entries of a file in both installer shapes, for a known and an unknown
\* installer type.
ShowEntries(n) ==
    {[name |-> n, fetcher |-> f, installer |-> i, package_name |-> pn,
      pinned |-> p] :
        f \in {GoodFetcher},
        i \in {ShortInstaller("deb"), FullInstaller("deb"),
               ShortInstaller("rpm"), FullInstaller("rpm")},
        pn \in {None, Some("other-pkg")},
        p \in {None, Some(TRUE)}}

RECURSIVE ShowDocsOfLen(_)
ShowDocsOfLen(n) ==
    IF n = 0 THEN {<<>>}
    ELSE {Append(d, e) : d \in ShowDocsOfLen(n - 1), e \in ShowEntries(Names[n])}

ShowFiles ==
    {[readable |-> FALSE, valid |-> FALSE, doc |-> <<>>],
     [readable |-> TRUE, valid |-> FALSE, doc |-> <<>>]}
    \cup {[readable |-> TRUE, valid |-> TRUE, doc |-> d] :
            d \in UNION {ShowDocsOfLen(n) : n \in 0..MaxApps}}

SIdle ==
    /\ sfile = [readable |-> FALSE, valid |-> FALSE, doc |-> <<>>]
    /\ shown = None
    /\ spc = "idle"

SInit ==
    /\ sfile \in ShowFiles
    /\ shown = None
    /\ spc = "input"

\* show_config_command: load_config, then print serde_yaml::to_string of it.
ShowConfig ==
    /\ spc = "input"
    /\ LET r == load_config(sfile) IN
       IF r.ok
       THEN /\ shown' = Some(to_string(r.val))
            /\ spc' = "shown"
       ELSE /\ shown' = None
            /\ spc' = "err"
    /\ UNCHANGED sfile

----------------------------------------------------------------------------
(* Inputs of the order of is_newer *)

ovars == <<oa, ob, oc, oout, opc>>

OrderAlphabet == {"1", "."}

RECURSIVE OrderStringsUpTo(_)
OrderStringsUpTo(n) ==
    IF n = 0 THEN {<<>>}
    ELSE LET shorter == OrderStringsUpTo(n - 1) IN
         shorter \cup {Append(s, c) : s \in {t \in shorter : Len(t) = n - 1},
                                      c \in OrderAlphabet}

OrderExamples ==
    { <<"0">>,
      <<"2">>,
      <<"1", ".", "0">>,
      <<"1", ".", "2">>,
      <<"1", ".", "9">>,
      <<"1", ".", "1", "0">>,
      <<"1", ".", "0", ".", "0", "-", "r", "c", "1">>,
      <<"n", "i", "g", "h", "t", "l", "y">> }

OrderInputs == OrderStringsUpTo(MaxLen) \cup OrderExamples

\* The fetcher of a well-formed configuration.
GoodGitHubFetcher ==
    GitHubFetcher_new(GoodFetcher,
                      [name |-> Names[1], fetcher |-> GoodFetcher,
                       installer |-> [type |-> "deb"],
                       package_name |-> None, pinned |-> None]).val

\* A release with this tag and an asset that matches.
ReleaseTagged(tag) ==
    [kind |-> "ok", tag_name |-> tag, assets |-> <<TarAsset, DebAsset>>]

OIdle ==
    /\ oa = <<>>
    /\ ob = <<>>
    /\ oc = <<>>
    /\ oout = None
    /\ opc = "idle"

OInit ==
    /\ oa \in OrderInputs
    /\ ob \in OrderInputs
    /\ oc \in OrderInputs
    /\ oout = None
    /\ opc = "input"

\* The calls of is_newer on oa, ob, oc, and the fetch_if_newer of a run in
\* which the installed version oa is the version of the latest release,
\* tagged oa or v followed by oa.
OrderCalls ==
    /\ opc = "input"
    /\ oout' = Some([aa |-> is_newer(oa, oa),
                     ab |-> is_newer(oa, ob),
                     ba |-> is_newer(ob, oa),
                     bc |-> is_newer(ob, oc),
                     ac |-> is_newer(oa, oc),
                     same  |-> fetch_if_newer(GoodGitHubFetcher, oa,
                                              ReleaseTagged(oa), "ok"),
                     vsame |-> fetch_if_newer(GoodGitHubFetcher, oa,
                                              ReleaseTagged(<<"v">> \o oa), "ok")])
    /\ opc' = "done"
    /\ UNCHANGED <<oa, ob, oc>>

----------------------------------------------------------------------------
(* Inputs of normalize_version *)

nvars == <<ntag, nout, npc>>

\* v, a digit, a separator of the class and a character outside the class.
TagAlphabet == {"v", "1", ".", "_"}

RECURSIVE TagsUpTo(_)
TagsUpTo(n) ==
    IF n = 0 THEN {<<>>}
    ELSE LET shorter == TagsUpTo(n - 1) IN
         shorter \cup {Append(s, c) : s \in {t \in shorter : Len(t) = n - 1},
                                      c \in TagAlphabet}

TagExamples ==
    { <<"v", "1", ".", "2", ".", "3">>,
      <<"1", ".", "2", ".", "3">>,
      <<"n", "i", "g", "h", "t", "l", "y">>,
      <<"v", "1", ".", "0", ".", "0", "-", "r", "c", "1">>,
      <<"v", "1", ".", "2", " ", "b">>,
      <<"r", "e", "l", "-", "1", ".", "2">>,
      <<"v", "v", "2">> }

TagInputs == TagsUpTo(MaxLen) \cup TagExamples

NIdle ==
    /\ ntag = <<>>
    /\ nout = <<>>
    /\ npc = "idle"

NInit ==
    /\ ntag \in TagInputs
    /\ nout = <<>>
    /\ npc = "input"

\* One call normalize_version(ntag).
NormalizeCall ==
    /\ npc = "input"
    /\ nout' = normalize_version(ntag)
    /\ npc' = "done"
    /\ UNCHANGED ntag

----------------------------------------------------------------------------
(* Downloads into the temp directory *)

dvars == <<tmpfiles, downloads, drun, dcount, dpc>>

MaxDownloads == 3

\* Repositories: two owners of a repository of the same name, and one owner
\* of two repositories.
DownloadRepos == { <<"o", "/", "r">>, <<"p", "/", "r">>, <<"o", "/", "s">> }

DownloadAssets == {DebAsset, OtherDebAsset}

DownloadApps == {Names[1], Names[2]}

\* The fetcher create_fetcher builds for an application on this repository.
FetcherOf(app, repo) ==
    LET fc == [type |-> "github", repo |-> Some(repo),
               file_pattern |-> GoodFetcher.file_pattern] IN
    create_fetcher(fc, [name |-> app, fetcher |-> fc,
                        installer |-> [type |-> "deb"],
                        package_name |-> None, pinned |-> None]).val

DIdle ==
    /\ tmpfiles = {}
    /\ downloads = <<>>
    /\ drun = 0
    /\ dcount = 0
    /\ dpc = "idle"

DInit ==
    /\ tmpfiles = {}
    /\ downloads = <<>>
    /\ drun = 1
    /\ dcount = 0
    /\ dpc = "run"

\* One call of download_asset. File::create creates the file or truncates
\* the one at that path; a failure after the GET leaves the file created
\* or not.
DownloadAsset ==
    /\ dpc = "run"
    /\ dcount < MaxDownloads
    /\ \E app \in DownloadApps, repo \in DownloadRepos,
          asset \in DownloadAssets, dl \in DownloadAnswers, created \in BOOLEAN :
          LET self  == FetcherOf(app, repo)
              r     == download_asset(self, asset.browser_download_url,
                                      asset.name, dl)
              path  == IF r.ok THEN r.val ELSE download_path(self, asset.name)
              wrote == r.ok \/ (dl = "io_err" /\ created)
          IN
          /\ dcount' = dcount + 1
          /\ IF wrote
             THEN /\ tmpfiles' = {f \in tmpfiles : f.path # path}
                                   \cup {[path |-> path, by |-> dcount + 1]}
                  /\ downloads' = Append(downloads,
                                         [n |-> dcount + 1, run |-> drun,
                                          repo |-> repo, name |-> asset.name,
                                          path |-> path])
             ELSE UNCHANGED <<tmpfiles, downloads>>
    /\ UNCHANGED <<drun, dpc>>

\* The process exits and autopkg is started again; the temp directory stays.
DownloadNextRun ==
    /\ dpc = "run"
    /\ drun < MaxRuns
    /\ drun' = drun + 1
    /\ UNCHANGED <<tmpfiles, downloads, dcount, dpc>>

----------------------------------------------------------------------------
(* Specifications *)

vars == <<bvars, vvars, ivars, nvars, svars, ovars, dvars>>

Init == BatchInit /\ VIdle /\ IIdle /\ NIdle /\ SIdle /\ OIdle /\ DIdle

Next ==
    \/ LoadConfig /\ UNCHANGED <<vvars, ivars, nvars, svars, ovars, dvars>>
    \/ BeginApplication /\ UNCHANGED <<vvars, ivars, nvars, svars, ovars, dvars>>
    \/ ShouldCheck /\ UNCHANGED <<vvars, ivars, nvars, svars, ovars, dvars>>
    \/ FetchIfNewer /\ UNCHANGED <<vvars, ivars, nvars, svars, ovars, dvars>>
    \/ DryRunReport /\ UNCHANGED <<vvars, ivars, nvars, svars, ovars, dvars>>
    \/ Install /\ UNCHANGED <<vvars, ivars, nvars, svars, ovars, dvars>>
    \/ FinishRun /\ UNCHANGED <<vvars, ivars, nvars, svars, ovars, dvars>>
    \/ NextRun /\ UNCHANGED <<vvars, ivars, nvars, svars, ovars, dvars>>

\* The batch runs.
Spec == Init /\ [][Next]_vars

VNext == IsNewerCall /\ UNCHANGED <<bvars, ivars, nvars, svars, ovars, dvars>>

InitVersion == BatchIdle /\ VInit /\ IIdle /\ NIdle /\ SIdle /\ OIdle /\ DIdle

\* is_newer on every pair of inputs.
SpecVersion == InitVersion /\ [][VNext]_vars

INext == InstallCall /\ UNCHANGED <<bvars, vvars, nvars, svars, ovars, dvars>>

InitInstall == BatchIdle /\ VIdle /\ IInit /\ NIdle /\ SIdle /\ OIdle /\ DIdle

\* install on every host.
SpecInstall == InitInstall /\ [][INext]_vars

InitConfigs == ConfigsInit /\ VIdle /\ IIdle /\ NIdle /\ SIdle /\ OIdle /\ DIdle

\* The batch runs on configurations of every shape construction tells apart.
SpecConfigs == InitConfigs /\ [][Next]_vars

SNext == ShowConfig /\ UNCHANGED <<bvars, vvars, ivars, nvars, ovars, dvars>>

InitShow == BatchIdle /\ VIdle /\ IIdle /\ NIdle /\ SInit /\ OIdle /\ DIdle

\* autopkg show-config on every file.
SpecShow == InitShow /\ [][SNext]_vars

ONext == OrderCalls /\ UNCHANGED <<bvars, vvars, ivars, nvars, svars, dvars>>

InitOrder == BatchIdle /\ VIdle /\ IIdle /\ NIdle /\ SIdle /\ OInit /\ DIdle

\* is_newer on every triple of inputs.
SpecOrder == InitOrder /\ [][ONext]_vars

NNext == NormalizeCall /\ UNCHANGED <<bvars, vvars, ivars, svars, ovars, dvars>>

InitNormalize == BatchIdle /\ VIdle /\ IIdle /\ NInit /\ SIdle /\ OIdle /\ DIdle

\* normalize_version on every tag.
SpecNormalize == InitNormalize /\ [][NNext]_vars

DNext ==
    \/ DownloadAsset /\ UNCHANGED <<bvars, vvars, ivars, nvars, svars, ovars>>
    \/ DownloadNextRun /\ UNCHANGED <<bvars, vvars, ivars, nvars, svars, ovars>>

InitDownload == BatchIdle /\ VIdle /\ IIdle /\ NIdle /\ SIdle /\ OIdle /\ DInit

\* Downloads of every repository and asset, over several runs.
SpecDownload == InitDownload /\ [][DNext]_vars

----------------------------------------------------------------------------
(* Properties *)

LoopStarted == idx >= 1

Returned == pc = "exit"

IsError(e) == e \notin {"none", "Ok"}

\* C1: in run_command every application of the list is processed exactly
\* once, whatever fails: an error while processing application i never keeps
\* applications i+1..n from being processed.
C1_EveryApplicationProcessedOnce ==
    /\ \A i \in 1..Len(processed) : processed[i] <= 1
    /\ \A i \in 1..Len(processed) : i < idx => processed[i] = 1
    /\ (Returned /\ LoopStarted) =>
           \A i \in 1..Len(config) : processed[i] = 1

\* An application that cannot be constructed comes first, and the one after
\* it was still processed and installed.
C1_Witness ==
    /\ Returned
    /\ Len(config) = 2
    /\ config[1].installer.type = "rpm"
    /\ processed[2] = 1
    /\ cur.app = 2
    /\ cur.install = "Ok"

PackageNameSet(i) == config[i].package_name # loaded[i].package_name

\* C2: in one batch run the configuration is written at most once, only after
\* the last application was processed, and it is written if and only if some
\* application had its package_name set during the run.
C2_SavedOncePerBatch ==
    /\ writes <= 1
    /\ writes = 1 =>
           /\ Returned
           /\ idx > Len(config)
           /\ \A i \in 1..Len(config) : processed[i] = 1
    /\ (Returned /\ LoopStarted) =>
           (writes = 1 <=> \E i \in 1..Len(config) : PackageNameSet(i))

\* Two applications had their package_name set and the file was written once.
C2_Witness ==
    /\ Returned
    /\ writes = 1
    /\ Cardinality({i \in 1..Len(config) : PackageNameSet(i)}) = 2

\* C3: with dry_run, install is never invoked, no package_name changes, the
\* needs-save flag stays false and the configuration file is never written.
C3_DryRunChangesNothing ==
    dry_run =>
        /\ cur.install = "not_called"
        /\ cur.spawned = None
        /\ installed = {}
        /\ config = loaded
        /\ ~config_updated
        /\ writes = 0

\* A dry run in which the fetcher downloaded the newer artifact.
C3_Witness ==
    /\ dry_run
    /\ cur.fetch = "Some"
    /\ cur.requests = <<"release", "asset">>
    /\ cur.result = "Ok"

\* C4: for an application with pinned = true, should_check_for_update
\* returns No without querying the package database, whatever the host would
\* answer; fetch_if_newer and install are never invoked and the spec is not
\* changed.
C4_PinnedIsSkipped ==
    (cur.app # 0 /\ loaded[cur.app].pinned = Some(TRUE)) =>
        /\ cur.check \in {"not_called", "No"}
        /\ is_none(cur.queried)
        /\ cur.fetch = "not_called"
        /\ cur.requests = <<>>
        /\ cur.install = "not_called"
        /\ ~cur.set_flag
        /\ config[cur.app] = loaded[cur.app]
        /\ cur.result \in {"running", "Ok"}

\* A pinned application whose package is installed is skipped.
C4_Witness ==
    /\ cur.app # 0
    /\ loaded[cur.app].pinned = Some(TRUE)
    /\ cur.check = "No"
    /\ cur.dpkg[1].success
    /\ is_some(FirstVersionLine(cur.dpkg[1].stdout))
    /\ cur.result = "Ok"

\* C5 as stated: run_command returns an error only when the failure is
\* before the per-application loop.
C5_ErrorOnlyBeforeLoop ==
    IsError(exit) => ~LoopStarted

\* C5 amended: run_command returns an error only when load_config fails
\* before the loop or when the one save_config after the loop fails; no
\* failure of a step of an application makes it return an error.
C5_ErrorOnlyFromLoadOrSave ==
    /\ ~Returned => exit = "none"
    /\ Returned => exit # "none"
    /\ (Returned /\ ~LoopStarted) =>
           exit \in {"Failed to read config file", "Failed to parse config YAML"}
    /\ (LoopStarted /\ IsError(exit)) =>
           /\ idx > Len(config)
           /\ writes = 1
           /\ exit = "Failed to write config file"
    /\ (Returned /\ LoopStarted /\ writes = 0) => exit = "Ok"

\* The last application failed and an earlier one set the flag: the error
\* returned is the one of the failed save.
C5_Witness ==
    /\ Returned
    /\ cur.result = "Err"
    /\ exit = "Failed to write config file"

\* C6: install runs the command directly as root; else through sudo when
\* sudo is in PATH and a terminal is attached; else it fails without
\* spawning a command.
C6_PrivilegePolicy ==
    ipc = "done" =>
        IF ihost.root
        THEN iout.spawned = Some(<<"dpkg", "-i", ipath>>)
        ELSE IF ihost.sudo /\ ihost.tty
        THEN iout.spawned = Some(<<"sudo", "dpkg", "-i", ipath>>)
        ELSE iout.ret = "Err" /\ is_none(iout.spawned)

\* What application i must be in the saved configuration.
ExpectedSaved(i) ==
    IF /\ i \in installed
       /\ ~dry_run
       /\ loaded[i].installer.type = "deb"
       /\ is_none(loaded[i].package_name)
    THEN [loaded[i] EXCEPT !.package_name = Some(loaded[i].name)]
    ELSE loaded[i]

Saved == Returned /\ writes = 1 /\ exit = "Ok"

\* C7: the configuration saved at the end of a batch differs from the loaded
\* one only in the package_name of the applications that completed a
\* non-dry-run deb install with package_name unset, each set to its own name;
\* everything else, and the order, is unchanged.
C7_SavedConfigFrame ==
    Saved =>
        /\ file.readable /\ file.valid
        /\ Len(file.doc) = Len(loaded)
        /\ \A i \in 1..Len(loaded) :
               deserialize_application(file.doc[i]) = ExpectedSaved(i)

\* The first application failed, the second was installed and inferred: the
\* saved file holds only the second one's package name.
C7_Witness ==
    /\ Saved
    /\ Len(loaded) = 2
    /\ is_none(loaded[1].fetcher.repo)
    /\ installed = {2}
    /\ is_none(file.doc[1].package_name)
    /\ file.doc[2].package_name = Some(loaded[2].name)

InferredEarlier(i) == is_some(inferred[i]) /\ inferred[i][1].run < run

\* C8: once a run has inferred and saved package_name = name for an
\* application, every later run reads it back and never changes it, the
\* installer queries the same package identity as in that run, and the
\* application never sets the needs-save flag again.
C8_InferenceIdempotent ==
    \A i \in 1..Len(inferred) :
        InferredEarlier(i) =>
            /\ file.valid =>
                   file.doc[i].package_name = Some(inferred[i][1].package)
            /\ LoopStarted =>
                   /\ loaded[i].package_name = Some(loaded[i].name)
                   /\ config[i] = loaded[i]
                   /\ is_none(inferring[i])
            /\ cur.app = i =>
                   /\ ~cur.set_flag
                   /\ is_some(cur.installer) =>
                          cur.installer[1].package_name = inferred[i][1].package
                   /\ is_some(cur.queried) =>
                          cur.queried[1] = inferred[i][1].package

\* In a later run the application is queried under the same identity,
\* installed again, and does not set the flag.
C8_Witness ==
    /\ run = 2
    /\ cur.app = 1
    /\ InferredEarlier(1)
    /\ cur.queried = Some(inferred[1][1].package)
    /\ cur.install = "Ok"
    /\ cur.result = "Ok"

\* The reference comparison: the numeric segments, the shorter sequence
\* padded with zeros, remote greater at the first position that differs.
ReferenceNewer(local, remote) ==
    LET l == parse(local)
        r == parse(remote)
        L(i) == IF i <= Len(l) THEN l[i] ELSE 0
        R(i) == IF i <= Len(r) THEN r[i] ELSE 0
    IN \E i \in 1..Max(Len(l), Len(r)) :
          /\ R(i) > L(i)
          /\ \A j \in 1..(i - 1) : R(j) = L(j)

\* C9: is_newer(local, remote) equals the reference comparison; it is false
\* when all components are equal: is_newer(1.2, 1.2.0) and
\* is_newer(1.0.0-rc1, 1.0.0) are false.
C9_IsNewerIsReference ==
    vpc = "compared" =>
        /\ vout = ReferenceNewer(vlocal, vremote)
        /\ parse(vlocal) = parse(vremote) => ~vout
        /\ (vlocal = <<"1", ".", "2">> /\ vremote = <<"1", ".", "2", ".", "0">>)
               => ~vout
        /\ (/\ vlocal = <<"1", ".", "0", ".", "0", "-", "r", "c", "1">>
            /\ vremote = <<"1", ".", "0", ".", "0">>) => ~vout
        /\ (/\ vlocal = <<"1", ".", "2", ".", "3">>
            /\ vremote = <<"1", ".", "3", ".", "0">>) => vout
        /\ (/\ vlocal = <<"1", ".", "3", ".", "0">>
            /\ vremote = <<"1", ".", "2", ".", "3">>) => ~vout

\* is_newer(1.2, 1.2.0) was computed, and is false.
C9_Witness ==
    /\ vpc = "compared"
    /\ vlocal = <<"1", ".", "2">>
    /\ vremote = <<"1", ".", "2", ".", "0">>
    /\ ~vout

\* The package is not installed: dpkg absent, the query failed, or its
\* output has no Version: line.
NotInstalled(d) ==
    \/ ~d.in_path
    \/ d.in_path /\ d.spawns /\ ~d.success
    \/ d.in_path /\ d.spawns /\ d.success /\ is_none(FirstVersionLine(d.stdout))

CheckedNotInstalled ==
    /\ cur.check # "not_called"
    /\ ~cur.installer[1].pinned
    /\ NotInstalled(cur.dpkg[1])

HasPositiveComponent(version) ==
    \E k \in 1..Len(parse(version)) : parse(version)[k] > 0

\* C10 as stated: for an unpinned application whose package is not
\* installed, should_check_for_update returns Yes("0.0.0"), and every release
\* tag then compares as newer.
C10_EveryTagNewerThanZero ==
    CheckedNotInstalled =>
        /\ cur.check = "Yes"
        /\ cur.current = Some(ZeroVersion)
        /\ is_some(cur.tag) => cur.newer = Some(TRUE)

\* C10 amended: should_check_for_update returns Yes("0.0.0"), and a release
\* tag then compares as newer exactly when its normalized version has a
\* numeric segment greater than zero.
C10_PositiveTagNewerThanZero ==
    CheckedNotInstalled =>
        /\ cur.check = "Yes"
        /\ cur.current = Some(ZeroVersion)
        /\ cur.fetch # "not_called" => cur.fetch_arg = Some(ZeroVersion)
        /\ is_some(cur.tag) =>
               cur.newer = Some(HasPositiveComponent(normalize_version(cur.tag[1])))

\* A package that is not installed, and release v1.3 is fetched for it.
C10_Witness ==
    /\ CheckedNotInstalled
    /\ cur.tag = Some(<<"v", "1", ".", "3">>)
    /\ cur.newer = Some(TRUE)
    /\ cur.fetch = "Some"

\* The tag without its optional leading v.
StripV(tag) == IF tag # <<>> /\ tag[1] = "v" THEN Tail(tag) ELSE tag

\* s matches [0-9][0-9A-Za-z.-+]* as a whole.
IsVersionText(s) ==
    /\ s # <<>>
    /\ s[1] \in Digits
    /\ \A i \in 1..Len(s) : InVersionClass(s[i])

IsPrefixOf(p, s) == Len(p) <= Len(s) /\ SubSeq(s, 1, Len(p)) = p

HasDigit(tag) == \E i \in 1..Len(tag) : tag[i] \in Digits

\* C11 as stated: normalize_version(tag) is the longest prefix of the tag
\* without its optional leading v that matches [0-9][0-9A-Za-z.-+]*; a tag
\* with no digit is returned unchanged.
C11_LongestPrefixAfterV ==
    npc = "done" =>
        IF ~HasDigit(ntag) THEN nout = ntag
        ELSE /\ IsPrefixOf(nout, StripV(ntag))
             /\ IsVersionText(nout)
             /\ \A n \in (Len(nout) + 1)..Len(StripV(ntag)) :
                    ~IsVersionText(SubSeq(StripV(ntag), 1, n))

\* C11 amended: normalize_version(tag) is the longest text matching
\* [0-9][0-9A-Za-z.-+]* that starts at the first digit of the tag, wherever
\* that digit is; it is the longest such prefix of the tag without its
\* leading v when that prefix exists; a tag with no digit is returned
\* unchanged; normalize(v1.2.3) = 1.2.3 and normalize(nightly) = nightly.
C11_LongestFromFirstDigit ==
    npc = "done" =>
        /\ ~HasDigit(ntag) => nout = ntag
        /\ HasDigit(ntag) =>
               \E i \in 1..Len(ntag) :
                   /\ ntag[i] \in Digits
                   /\ \A j \in 1..(i - 1) : ntag[j] \notin Digits
                   /\ IsVersionText(nout)
                   /\ nout = SubSeq(ntag, i, i + Len(nout) - 1)
                   /\ i + Len(nout) <= Len(ntag) =>
                          ~InVersionClass(ntag[i + Len(nout)])
        /\ (StripV(ntag) # <<>> /\ StripV(ntag)[1] \in Digits) =>
               /\ IsPrefixOf(nout, StripV(ntag))
               /\ \A n \in (Len(nout) + 1)..Len(StripV(ntag)) :
                      ~IsVersionText(SubSeq(StripV(ntag), 1, n))
        /\ ntag = <<"v", "1", ".", "2", ".", "3">> => nout = <<"1", ".", "2", ".", "3">>
        /\ ntag = <<"n", "i", "g", "h", "t", "l", "y">> => nout = ntag

\* A tag whose first digit is not at its start: rel-1.2 gives 1.2.
C11_Witness ==
    /\ npc = "done"
    /\ ntag = <<"r", "e", "l", "-", "1", ".", "2">>
    /\ nout = <<"1", ".", "2">>

\* The position of the first asset whose name matches, 0 if there is none.
FirstMatching(assets, pattern) ==
    IF \E k \in 1..Len(assets) : matches(pattern, assets[k].name)
    THEN CHOOSE k \in 1..Len(assets) :
            /\ matches(pattern, assets[k].name)
            /\ \A j \in 1..(k - 1) : ~matches(pattern, assets[j].name)
    ELSE 0

FetchedNewer == cur.fetch # "not_called" /\ cur.newer = Some(TRUE)

\* C12: when a newer release exists, fetch_if_newer downloads the first
\* asset of the release's list whose name matches the glob pattern (with the
\* pattern *.d and the assets [a.t, a.d, b.d] it is a.d); when no asset
\* matches it returns None, not an error, and requests no download.
C12_FirstMatchingAsset ==
    FetchedNewer =>
        \A k \in {FirstMatching(cur.assets[1], cur.fetcher[1].file_pattern)} :
           LET assets == cur.assets[1] IN
           IF k = 0
           THEN /\ cur.fetch = "None"
                /\ is_none(cur.asset)
                /\ is_none(cur.path)
                /\ cur.requests = <<"release">>
           ELSE /\ cur.asset = Some(assets[k].name)
                /\ cur.requests = <<"release", "asset">>
                /\ cur.fetch = "Some" =>
                       cur.path = Some(download_path(cur.fetcher[1], assets[k].name))
                /\ (/\ cur.fetcher[1].file_pattern = GoodFetcher.file_pattern[1]
                    /\ assets[1] = TarAsset
                    /\ Len(assets) >= 2
                    /\ assets[2] = DebAsset) => cur.asset = Some(DebAsset.name)

\* Two assets match *.d and the first of them, the second of the list, was
\* downloaded.
C12_Witness ==
    /\ FetchedNewer
    /\ cur.fetch = "Some"
    /\ Cardinality({k \in 1..Len(cur.assets[1]) :
                       matches(cur.fetcher[1].file_pattern, cur.assets[1][k].name)}) = 2
    /\ cur.asset = Some(cur.assets[1][2].name)

\* A newer release none of whose assets matches: None and no download.
C12_WitnessNoMatch ==
    /\ FetchedNewer
    /\ cur.assets = Some(<<TarAsset>>)
    /\ cur.fetch = "None"
    /\ cur.requests = <<"release">>

\* The errors of the two GETs: the request cannot be sent, the status is not
\* a success, the body of the release query is not a release.
ReleaseQueryErrors == {"send", "GitHub API returned non-success status", "json"}

DownloadTransportErrors == {"send_err", "status_err"}

\* The downloaded file cannot be created or written in the temp directory.
DownloadFileErrors == {"io_err"}

FetchReturnsNoneWhenNothingToInstall ==
    /\ cur.newer = Some(FALSE) =>
           /\ cur.fetch = "None"
           /\ cur.requests = <<"release">>
    /\ (cur.newer = Some(TRUE) /\ cur.fetch # "None") =>
           \E k \in 1..Len(cur.assets[1]) :
               matches(cur.fetcher[1].file_pattern, cur.assets[1][k].name)

\* C13 as stated: fetch_if_newer returns None when the release is not newer
\* (without a download request) or no asset matches, and returns an error
\* only on a transport or protocol failure of one of its two requests.
C13_ErrorOnlyOnTransportFailure ==
    cur.fetch # "not_called" =>
        /\ FetchReturnsNoneWhenNothingToInstall
        /\ cur.fetch = "Err" =>
               cur.error[1] \in ReleaseQueryErrors \cup DownloadTransportErrors

\* C13 amended: as stated, but fetch_if_newer also returns an error when the
\* download was answered and the file cannot be created or written; an error
\* comes from the release query before anything is known of the release, or
\* from the download of the selected asset of a newer release.
C13_ErrorOnlyOnTransportOrFileFailure ==
    cur.fetch # "not_called" =>
        /\ FetchReturnsNoneWhenNothingToInstall
        /\ cur.fetch = "Err" <=> is_some(cur.error)
        /\ cur.fetch = "Err" =>
               \/ /\ cur.error[1] \in ReleaseQueryErrors
                  /\ is_none(cur.tag)
                  /\ cur.requests = <<"release">>
               \/ /\ cur.error[1] \in DownloadTransportErrors \cup DownloadFileErrors
                  /\ cur.newer = Some(TRUE)
                  /\ is_some(cur.asset)
                  /\ cur.requests = <<"release", "asset">>

\* The asset of a newer release was requested and its file could not be
\* written.
C13_Witness ==
    /\ cur.fetch = "Err"
    /\ cur.error = Some("io_err")
    /\ cur.newer = Some(TRUE)
    /\ cur.result = "Err"

\* owner/name: two non-empty parts separated by one slash.
WellFormedRepo(repo) ==
    /\ is_some(repo)
    /\ Len(split(repo[1], "/")) = 2
    /\ split(repo[1], "/")[1] # <<>>
    /\ split(repo[1], "/")[2] # <<>>

Constructing == cur.app # 0

\* C14: constructing a GitHub fetcher fails for every fetcher configuration
\* whose repo is absent or not of the form owner/name, and construction
\* fails for every unknown fetcher or installer type; it succeeds only for
\* well-formed configurations.
C14_ConstructionRejectsMalformed ==
    Constructing =>
        LET app == loaded[cur.app] IN
        /\ is_some(cur.installer) <=> app.installer.type = "deb"
        /\ is_some(cur.fetcher) =>
               /\ app.fetcher.type = "github"
               /\ WellFormedRepo(app.fetcher.repo)
               /\ Pattern_new(unwrap_or(app.fetcher.file_pattern, <<"*">>)).ok
        /\ (is_some(cur.installer) /\ is_none(cur.fetcher)) => cur.result = "Err"

\* A configuration error: unknown installer type, unknown fetcher type,
\* missing or malformed repo, bad glob.
ConfigurationError(app) ==
    \/ app.installer.type # "deb"
    \/ app.fetcher.type # "github"
    \/ ~WellFormedRepo(app.fetcher.repo)
    \/ ~Pattern_new(unwrap_or(app.fetcher.file_pattern, <<"*">>)).ok

\* C19: for an application with a configuration error, pinned or not, none
\* of should_check_for_update, fetch_if_newer and install is invoked (no
\* package query, no request, no install command), the application ends in
\* an error, and the applications after it are still processed.
C19_ConfigurationErrorBeforeAnyAction ==
    /\ (Constructing /\ ConfigurationError(loaded[cur.app])) =>
           /\ cur.check = "not_called"
           /\ is_none(cur.queried)
           /\ cur.fetch = "not_called"
           /\ cur.requests = <<>>
           /\ cur.install = "not_called"
           /\ is_none(cur.spawned)
           /\ cur.result = "Err"
    /\ (Returned /\ LoopStarted) => \A i \in 1..Len(config) : processed[i] = 1

\* The same installer in the other shape of the file.
OtherShape(wire) ==
    IF wire.shape = "string" THEN FullInstaller(wire.value)
    ELSE ShortInstaller(wire.type)

OtherShapes(doc) ==
    [i \in 1..Len(doc) |-> [doc[i] EXCEPT !.installer = OtherShape(@)]]

\* C15: an installer given as a bare string t and one given as {type: t}
\* parse to the same InstallerConfig; serialization emits the object form
\* only; parsing the serialized configuration yields the same in-memory
\* configuration, which serializes to the same text again.
C15_InstallerShapesRoundTrip ==
    spc = "shown" =>
        /\ from_str(OtherShapes(sfile.doc)) = from_str(sfile.doc)
        /\ \A i \in 1..Len(sfile.doc) :
               from_str(sfile.doc)[i].installer.type =
                   IF sfile.doc[i].installer.shape = "string"
                   THEN sfile.doc[i].installer.value
                   ELSE sfile.doc[i].installer.type
        /\ \A i \in 1..Len(shown[1]) : shown[1][i].installer.shape = "map"
        /\ Len(shown[1]) = Len(sfile.doc)
        /\ from_str(shown[1]) = from_str(sfile.doc)
        /\ to_string(from_str(shown[1])) = shown[1]

\* A file with one installer in each shape was parsed and emitted with both
\* in the object form.
C15_Witness ==
    /\ spc = "shown"
    /\ Len(sfile.doc) = 2
    /\ sfile.doc[1].installer = ShortInstaller("deb")
    /\ sfile.doc[2].installer = FullInstaller("deb")
    /\ shown[1][1].installer = FullInstaller("deb")
    /\ shown[1][2].installer = FullInstaller("deb")

Called(step) == step # "not_called"

\* C16: per application and batch, should_check_for_update, fetch_if_newer
\* and install are each invoked at most once; fetch_if_newer is invoked only
\* after should_check_for_update returned Yes(v), with exactly v; install
\* only after fetch_if_newer returned Some(path), with exactly that path; a
\* None from the fetcher ends the application without install.
C16_ProtocolOrder ==
    /\ Constructing => processed[cur.app] = 1
    /\ cur.n_check = (IF Called(cur.check) THEN 1 ELSE 0)
    /\ cur.n_fetch = (IF Called(cur.fetch) THEN 1 ELSE 0)
    /\ cur.n_install = (IF Called(cur.install) THEN 1 ELSE 0)
    /\ pc = "fetch" => cur.check = "Yes" /\ ~Called(cur.fetch)
    /\ pc = "install" => cur.fetch = "Some" /\ ~Called(cur.install)
    /\ Called(cur.fetch) =>
           /\ cur.check = "Yes"
           /\ is_some(cur.current)
           /\ cur.fetch_arg = cur.current
    /\ Called(cur.install) =>
           /\ cur.fetch = "Some"
           /\ is_some(cur.path)
           /\ cur.install_arg = cur.path
    /\ cur.check \in {"No", "Err"} => ~Called(cur.fetch)
    /\ cur.fetch \in {"None", "Err"} => ~Called(cur.install) /\ pc # "install"
    /\ cur.fetch = "None" => cur.result = "Ok"

\* All three steps ran once, the installed version fed the fetcher and the
\* downloaded path the installer.
C16_Witness ==
    /\ cur.n_check = 1 /\ cur.n_fetch = 1 /\ cur.n_install = 1
    /\ cur.current = Some(<<"1", ".", "2">>)
    /\ cur.fetch_arg = Some(<<"1", ".", "2">>)
    /\ cur.install_arg = Some(download_path(cur.fetcher[1], DebAsset.name))
    /\ cur.result = "Ok"

Processing == pc \in {"loop", "check", "fetch", "install"} /\ run' = run

InstallSucceeds == pc = "install" /\ cur'.install = "Ok"

InferenceStep ==
    /\ InstallSucceeds =>
           LET app == config[idx] IN
           /\ ~dry_run
           /\ cur'.app = idx
           /\ IF app.installer.type = "deb" /\ is_none(app.package_name)
              THEN /\ config' = [config EXCEPT ![idx].package_name = Some(app.name)]
                   /\ config_updated'
                   /\ cur'.set_flag
              ELSE /\ config' = config
                   /\ config_updated' = config_updated
                   /\ ~cur'.set_flag
    /\ (Processing /\ ~InstallSucceeds) =>
           /\ config' = config
           /\ config_updated' = config_updated

\* C17: in the step in which a non-dry-run install succeeds, if the installer
\* type is deb and package_name was unset, package_name becomes the
\* application's name and the needs-save flag is set; otherwise the
\* configuration and the flag are left as they were; and nothing else
\* changes the configuration while the applications are processed.
C17_InferenceRightAfterInstall == [][InferenceStep]_vars

\* The first application inferred its package_name; the second, whose
\* package_name was given, was installed and changed nothing.
C17_Witness ==
    /\ cur.app = 2
    /\ cur.install = "Ok"
    /\ ~cur.set_flag
    /\ is_some(loaded[2].package_name)
    /\ config[2] = loaded[2]
    /\ is_none(loaded[1].package_name)
    /\ config[1].package_name = Some(config[1].name)
    /\ config_updated

ErrorStep ==
    /\ (cur'.result = "Err" /\ cur.result # "Err") =>
           /\ config' = config
           /\ config_updated' = config_updated
    /\ cur'.result = "Err" =>
           /\ ~cur'.set_flag
           /\ config'[cur'.app] = loaded'[cur'.app]
    /\ cur'.status = Some("nonzero") =>
           /\ cur'.install = "Err"
           /\ cur'.result = "Err"
           /\ config'[cur'.app].package_name = loaded'[cur'.app].package_name
    /\ (config_updated /\ run' = run) => config_updated'

\* C18: an application that ends in an error changes neither its entry nor
\* the needs-save flag; an install command that exits non-zero is an error
\* of the application and leaves package_name as it was; within one batch the
\* flag is never reset from true to false.
C18_ErrorChangesNothing == [][ErrorStep]_vars

\* The first application set the flag; the install of the second exited
\* non-zero: its package_name stays unset and the flag stays set.
C18_Witness ==
    /\ cur.app = 2
    /\ cur.status = Some("nonzero")
    /\ cur.result = "Err"
    /\ is_none(config[2].package_name)
    /\ config_updated
    /\ config[1].package_name = Some(config[1].name)

\* C20: is_newer is a strict order: is_newer(a, a) is false, is_newer(a, b)
\* and is_newer(b, a) never both hold, and is_newer(a, b) with
\* is_newer(b, c) implies is_newer(a, c); and when the installed version is
\* the version of the latest release, fetch_if_newer returns None after the
\* release query alone, so nothing is installed.
C20_IsNewerStrictOrder ==
    opc = "done" =>
        LET o == oout[1] IN
        /\ ~o.aa
        /\ ~(o.ab /\ o.ba)
        /\ (o.ab /\ o.bc) => o.ac
        /\ o.same.fetch = "None"
        /\ o.same.newer = Some(FALSE)
        /\ o.same.requests = <<"release">>
        /\ is_none(o.same.path)
        /\ o.vsame.fetch = "None"
        /\ o.vsame.requests = <<"release">>

\* 1.2, 1.9, 1.10: each newer than the one before, and the last newer than
\* the first.
C20_Witness ==
    /\ opc = "done"
    /\ oa = <<"1", ".", "2">>
    /\ ob = <<"1", ".", "9">>
    /\ oc = <<"1", ".", "1", "0">>
    /\ oout[1].ab /\ oout[1].bc /\ oout[1].ac
    /\ ~oout[1].ba
    /\ oout[1].same.fetch = "None"

SameRepoAndName(d, e) == d.repo = e.repo /\ d.name = e.name

\* C21: the download path is a function of the repo and the asset name only:
\* two downloads of the same repo and asset name, in the same run or in
\* different runs, write the same path of the temp directory, so the later
\* one overwrites the file of the earlier one and the directory holds one
\* file for them, last written no earlier than the latest of them.
C21_SameRepoAndNameSamePath ==
    LET D == {downloads[k] : k \in 1..Len(downloads)} IN
    /\ \A d \in D : \A e \in D : SameRepoAndName(d, e) => d.path = e.path
    /\ \A d \in D :
           LET at == {f \in tmpfiles : f.path = d.path} IN
           /\ Cardinality(at) = 1
           /\ \A f \in at : f.by >= d.n
    /\ Cardinality(tmpfiles) <= Cardinality({<<d.repo, d.name>> : d \in D})

\* Three downloads of a.d of o/r, by two applications, two in the first run
\* and one in the second, leave one file.
C21_Witness ==
    /\ Len(downloads) = 3
    /\ \A k \in 1..3 : /\ downloads[k].repo = <<"o", "/", "r">>
                        /\ downloads[k].name = DebAsset.name
    /\ downloads[1].run = 1 /\ downloads[2].run = 1 /\ downloads[3].run = 2
    /\ tmpfiles = {[path |-> download_path(FetcherOf(Names[1], <<"o", "/", "r">>),
                                          DebAsset.name),
                    by |-> 3]}

====
